---- MODULE Spec2Model ----
(***************************************************************************)
(* watchmux: a set of child processes is launched in parallel, each        *)
(* child's stdout and stderr are read line by line, every line is tagged   *)
(* with the process title and sent through one bounded channel to the      *)
(* loop of run(), which writes the lines to stdout.                        *)
(*                                                                         *)
(*   src/src/main.rs    run(): the channel, the task per process, the      *)
(*                      receive-and-write loop                             *)
(*   src/src/config.rs  WatchProcess::run, listen_out, execute_and_await   *)
(*                                                                         *)
(* main.rs still carries an older WatchProcess (lines 40-103: no wait_for, *)
(* stdout only); the task of a process is modelled from the WatchProcess   *)
(* of config.rs, the loop and the channel from run() of main.rs.           *)
(***************************************************************************)
EXTENDS Integers, Sequences, FiniteSets, TLC

(* ------------------------------ bounds --------------------------------- *)


\* Most lines all children together (wait_for commands and main commands,
\* stdout and stderr) write during a run.
MaxLines == 3

\* Capacity of the channel in the model. The program creates it with 1024
\* (main.rs:180); the model scales it down so that a full channel is reached.
ChanCapacity == 2

\* Exit codes of a child are 0 .. MaxExitCode; 0 is ExitStatus::success().
MaxExitCode == 1

\* Longest command text (self.cmd) explored, in characters.
MaxCmdLen == 4

(* --------------------------- program constants ------------------------- *)

\* Color::Fixed of the stdout tag and of the stderr tag.
StdoutColor == 173
StderrColor == 167

\* The entries of config.processes, in the order of the Vec.
Procs == {1, 2}
\* Bound: the processes whose wait_for may be set in the configurations
\* explored.
Gated == {1}
Streams == {"stdout", "stderr"}
ExitCodes == 0 .. MaxExitCode

VARIABLES
    wait_for,   \* wait_for[p]: TRUE iff self.wait_for is not empty
    orchPc,     \* run(): "spawn", "recv", "write", "returned"
    result,     \* run()'s return value, <<"none">> until it returns
    chan,       \* the messages buffered in the mpsc channel
    closed,     \* TRUE once rx has been dropped
    hand,       \* the message recv() returned, being written: <<>> or <<m>>
    out,        \* the arguments of the write_all calls that succeeded
    pc,         \* pc[p]: position of the task of process p
    phase,      \* phase[p]: which child p runs or ran last: "none","gate","main"
    rd,         \* rd[p][s]: state of listen_out on stream s of p's child
    pend,       \* pend[p][s]: the message listen_out is sending: <<>> or <<m>>
    child,      \* child[p]: <<"none">>, <<"running">> or <<"exited", code>>
    gateStatus, \* gateStatus[p]: exit code of the wait_for child, -1 before
    emitted,    \* emitted[p]: lines read so far from the children of p
    outcome,    \* outcome[p]: what WatchProcess::run returned, <<"none">> before
    cmd,        \* self.cmd of one WatchProcess, a sequence of characters
    run_type,   \* its self.run_type: "none", "cmd" or "shell"
    argv        \* what its Command is built with, <<>> before

vars == <<wait_for, orchPc, result, chan, closed, hand, out, pc, phase, rd,
          pend, child, gateStatus, emitted, outcome, cmd, run_type, argv>>

cmdVars == <<cmd, run_type, argv>>
runVars == <<wait_for, orchPc, result, chan, closed, hand, out, pc, phase, rd,
             pend, child, gateStatus, emitted, outcome>>

orchVars == <<orchPc, result, closed, hand, out>>

(* ------------------------------ lines ---------------------------------- *)

\* self.title of process p.
Title(p) == <<"title", p>>

\* The color listen_out is called with for stream s.
ColorOf(s) == IF s = "stdout" THEN StdoutColor ELSE StderrColor

\* Style::new().on(Color::Fixed(color)).paint(format!("[ {title} ] "))
Paint(color, title) == <<"on", color, "[ ", title, " ] ", "reset">>

\* format!("{title} {line}\n") with the painted title.
FormatLine(color, title, line) == Paint(color, title) \o <<" ", line, "\n">>

\* The k-th line the children of p write; src records where it was read.
Message(p, ph, s, k) ==
    [src |-> <<p, ph, s, k>>, text |-> FormatLine(ColorOf(s), Title(p), k)]

(* --------------------------- initial state ----------------------------- *)

\* The state run() starts in, but for the command text.
InitRun ==
    /\ wait_for \in {w \in [Procs -> BOOLEAN] : \A p \in Procs : w[p] => p \in Gated}
    /\ orchPc = "spawn"
    /\ result = <<"none">>
    /\ chan = <<>>
    /\ closed = FALSE
    /\ hand = <<>>
    /\ out = <<>>
    /\ pc = [p \in Procs |-> "unspawned"]
    /\ phase = [p \in Procs |-> "none"]
    /\ rd = [p \in Procs |-> [s \in Streams |-> "idle"]]
    /\ pend = [p \in Procs |-> [s \in Streams |-> <<>>]]
    /\ child = [p \in Procs |-> <<"none">>]
    /\ gateStatus = [p \in Procs |-> -1]
    /\ emitted = [p \in Procs |-> 0]
    /\ outcome = [p \in Procs |-> <<"none">>]

\* The runs explored all use one command text.
Init ==
    /\ InitRun
    /\ cmd = <<"a">>
    /\ run_type = "none"
    /\ argv = <<>>

(* ----------------------- run(): main.rs 178-215 ------------------------ *)

\* Live Sender handles: tx of run() and the clone each unfinished task holds.
SenderCount ==
    (IF orchPc = "returned" THEN 0 ELSE 1)
        + Cardinality({p \in Procs : pc[p] \notin {"unspawned", "done"}})

\* One turn of the for loop: tokio::spawn of the task of process p.
SpawnTask(p) ==
    /\ orchPc = "spawn"
    /\ pc[p] = "unspawned"
    /\ \A q \in Procs : q < p => pc[q] # "unspawned"
    /\ pc' = [pc EXCEPT ![p] = "start"]
    /\ orchPc' = IF \A q \in Procs : q <= p THEN "recv" ELSE "spawn"
    /\ UNCHANGED <<cmdVars, wait_for, result, chan, closed, hand, out, phase, rd, pend,
                   child, gateStatus, emitted, outcome>>

\* Return that leaves the receiver alive (rx moved into a task that never
\* reads it): the channel stays open and keeps what it buffers.
Return_KeepsRx(r) ==
    /\ orchPc' = "returned"
    /\ result' = r
    /\ UNCHANGED <<closed, chan>>
    /\ hand' = <<>>

\* run() returns r: its locals rx, tx and out are dropped; dropping rx closes
\* the channel and discards what it still buffers.
Return(r) ==
    /\ orchPc' = "returned"
    /\ result' = r
    /\ closed' = TRUE
    /\ chan' = <<>>
    /\ hand' = <<>>

\* rx.recv().await: the oldest buffered message, or None once the channel is
\* empty and no Sender is left; it stays pending otherwise.
Recv ==
    /\ orchPc = "recv"
    /\ IF chan # <<>>
       THEN /\ hand' = <<Head(chan)>>
            /\ chan' = Tail(chan)
            /\ orchPc' = "write"
            /\ UNCHANGED <<result, closed>>
       ELSE /\ SenderCount = 0
            /\ Return(<<"Ok">>)
    /\ UNCHANGED <<cmdVars, wait_for, out, pc, phase, rd, pend, child, gateStatus,
                   emitted, outcome>>

\* WriteOk with write in place of write_all: the last bytes are not written.
WriteOk_Partial ==
    /\ orchPc = "write"
    /\ out' = Append(out, [hand[1] EXCEPT !.text = SubSeq(@, 1, Len(@) - 1)])
    /\ hand' = <<>>
    /\ orchPc' = "recv"
    /\ UNCHANGED <<cmdVars, wait_for, result, chan, closed, pc, phase, rd, pend, child,
                   gateStatus, emitted, outcome>>

\* out.write_all(line.as_bytes()).await succeeds.
WriteOk ==
    /\ orchPc = "write"
    /\ out' = Append(out, hand[1])
    /\ hand' = <<>>
    /\ orchPc' = "recv"
    /\ UNCHANGED <<cmdVars, wait_for, result, chan, closed, pc, phase, rd, pend, child,
                   gateStatus, emitted, outcome>>

\* out.write_all(..).await fails: `?` returns the error from run().
WriteErr ==
    /\ orchPc = "write"
    /\ Return(<<"IoChildProcess", "write">>)
    /\ UNCHANGED <<cmdVars, wait_for, out, pc, phase, rd, pend, child, gateStatus,
                   emitted, outcome>>

(* ---------------- WatchProcess::run: config.rs 51-111 ------------------ *)

\* Finish where an Err outcome takes the sibling tasks down with it.
Finish_AbortsSiblings(p, oc) ==
    /\ pc' = [q \in Procs |-> IF q = p \/ oc # <<"Ok">> THEN "done" ELSE pc[q]]
    /\ outcome' = [outcome EXCEPT ![p] = oc]

\* The task of p ends: WatchProcess::run returned oc (the closure of main.rs
\* 184-189 panics on an Err, which ends this task alone); the task's Sender
\* is dropped.
Finish(p, oc) ==
    /\ pc' = [pc EXCEPT ![p] = "done"]
    /\ outcome' = [outcome EXCEPT ![p] = oc]

\* Command::spawn for phase ph succeeded; execute_and_await starts the two
\* listen_out futures under join!.
Spawned(p, ph) ==
    /\ pc' = [pc EXCEPT ![p] = "listen"]
    /\ phase' = [phase EXCEPT ![p] = ph]
    /\ child' = [child EXCEPT ![p] = <<"running">>]
    /\ rd' = [rd EXCEPT ![p] = [s \in Streams |-> "reading"]]
    /\ UNCHANGED outcome

\* Command::spawn failed: map_err(WatchError::IoChildProcess)?
SpawnFailed(p) ==
    /\ Finish(p, <<"IoChildProcess", "spawn">>)
    /\ UNCHANGED <<phase, child, rd>>

\* SpawnGate without the test of config.rs 52.
SpawnGate_Always(p) ==
    /\ pc[p] = "start"
    /\ \/ Spawned(p, "gate")
       \/ SpawnFailed(p)
    /\ UNCHANGED <<cmdVars, wait_for, orchVars, chan, pend, gateStatus, emitted>>

\* config.rs 52-60: wait_for is not empty, bash -c wait_for is spawned.
SpawnGate(p) ==
    /\ pc[p] = "start"
    /\ wait_for[p]
    /\ \/ Spawned(p, "gate")
       \/ SpawnFailed(p)
    /\ UNCHANGED <<cmdVars, wait_for, orchVars, chan, pend, gateStatus, emitted>>

\* The task is at config.rs 73: wait_for is empty, or its child succeeded.
AtMain(p) == pc[p] = "main" \/ (pc[p] = "start" /\ ~wait_for[p])

\* config.rs 73-108: the command (Cmd or Shell) is spawned.
SpawnMain(p) ==
    /\ AtMain(p)
    /\ \/ Spawned(p, "main")
       \/ SpawnFailed(p)
    /\ UNCHANGED <<cmdVars, wait_for, orchVars, chan, pend, gateStatus, emitted>>

(* -------------------- listen_out: config.rs 113-134 -------------------- *)

RECURSIVE SumOver(_, _)
SumOver(f, S) ==
    IF S = {} THEN 0
    ELSE LET x == CHOOSE y \in S : TRUE IN f[x] + SumOver(f, S \ {x})

\* Lines read so far from all children.
TotalEmitted == SumOver(emitted, Procs)

\* out.next_line() returns Ok(Some(line)): the message is formatted and
\* send() is called with it.
NextLine(p, s) ==
    /\ pc[p] = "listen"
    /\ rd[p][s] = "reading"
    /\ TotalEmitted < MaxLines
    /\ emitted' = [emitted EXCEPT ![p] = @ + 1]
    /\ pend' = [pend EXCEPT ![p][s] = <<Message(p, phase[p], s, emitted[p] + 1)>>]
    /\ rd' = [rd EXCEPT ![p][s] = "sending"]
    /\ UNCHANGED <<cmdVars, wait_for, orchVars, chan, pc, phase, child, gateStatus, outcome>>

\* out.next_line() returns Ok(None) (end of stream) or Err (a line that is
\* not UTF-8): the while let ends and listen_out returns Ok(()).
NextLineEnd(p, s) ==
    /\ pc[p] = "listen"
    /\ rd[p][s] = "reading"
    /\ rd' = [rd EXCEPT ![p][s] = "ok"]
    /\ UNCHANGED <<cmdVars, wait_for, orchVars, chan, pc, phase, pend, child, gateStatus,
                   emitted, outcome>>

\* Enqueue that puts the message in front of the buffered ones.
Enqueue_Front(m) == <<m>> \o chan

\* The channel as it is after message m was sent into it.
Enqueue(m) == Append(chan, m)

\* Send as try_send would do it: a message that finds the channel full is
\* dropped and the loop goes on.
Send_DropsWhenFull(p, s) ==
    /\ pc[p] = "listen"
    /\ rd[p][s] = "sending"
    /\ ~closed
    /\ chan' = IF Len(chan) < ChanCapacity THEN Enqueue(pend[p][s][1]) ELSE chan
    /\ pend' = [pend EXCEPT ![p][s] = <<>>]
    /\ rd' = [rd EXCEPT ![p][s] = "reading"]
    /\ UNCHANGED <<cmdVars, wait_for, orchVars, pc, phase, child, gateStatus, emitted, outcome>>

\* sender.send(..).await completes: there is room in the channel.
Send(p, s) ==
    /\ pc[p] = "listen"
    /\ rd[p][s] = "sending"
    /\ ~closed
    /\ Len(chan) < ChanCapacity
    /\ chan' = Enqueue(pend[p][s][1])
    /\ pend' = [pend EXCEPT ![p][s] = <<>>]
    /\ rd' = [rd EXCEPT ![p][s] = "reading"]
    /\ UNCHANGED <<cmdVars, wait_for, orchVars, pc, phase, child, gateStatus, emitted, outcome>>

\* SendFail that ignores the error and goes on reading.
SendFail_GoesOn(p, s) ==
    /\ pc[p] = "listen"
    /\ rd[p][s] = "sending"
    /\ closed
    /\ pend' = [pend EXCEPT ![p][s] = <<>>]
    /\ rd' = [rd EXCEPT ![p][s] = "reading"]
    /\ UNCHANGED <<cmdVars, wait_for, orchVars, chan, pc, phase, child, gateStatus,
                   emitted, outcome>>

\* sender.send(..).await fails, the receiver is gone:
\* map_err(WatchError::SendError)? ends listen_out with the error.
SendFail(p, s) ==
    /\ pc[p] = "listen"
    /\ rd[p][s] = "sending"
    /\ closed
    /\ pend' = [pend EXCEPT ![p][s] = <<>>]
    /\ rd' = [rd EXCEPT ![p][s] = "err"]
    /\ UNCHANGED <<cmdVars, wait_for, orchVars, chan, pc, phase, child, gateStatus,
                   emitted, outcome>>

(* ----------------- execute_and_await: config.rs 136-162 ---------------- *)

\* ReadersDone as select! would have it: one listen_out is complete.
ReadersDone_Any(p) ==
    pc[p] = "listen" /\ \E s \in Streams : rd[p][s] \in {"ok", "err"}

\* join! has returned: both listen_out futures are complete.
ReadersDone(p) ==
    pc[p] = "listen" /\ \A s \in Streams : rd[p][s] \in {"ok", "err"}

\* [out, err].into_iter().collect::<Result<(), _>>().is_err()
ReaderFailed(p) == \E s \in Streams : rd[p][s] = "err"

\* OnStatus without the status.success() test of config.rs 65.
OnStatus_NoSuccessTest(p, code) ==
    IF phase[p] = "gate"
    THEN /\ pc' = [pc EXCEPT ![p] = "main"]
         /\ UNCHANGED outcome
    ELSE Finish(p, <<"Ok">>)

\* OnStatus that records the AwaitFor error and goes on to the command.
OnStatus_GoesOn(p, code) ==
    IF phase[p] = "gate"
    THEN /\ pc' = [pc EXCEPT ![p] = "main"]
         /\ outcome' = [outcome EXCEPT ![p] =
                            IF code = 0 THEN @ ELSE <<"AwaitFor", code>>]
    ELSE Finish(p, <<"Ok">>)

\* What WatchProcess::run does with Ok(status) of execute_and_await:
\* config.rs 64-70 for the wait_for child, 96 / 107 and 110 for the command.
OnStatus(p, code) ==
    IF phase[p] = "gate"
    THEN IF code = 0
         THEN /\ pc' = [pc EXCEPT ![p] = "main"]
              /\ UNCHANGED outcome
         ELSE Finish(p, <<"AwaitFor", code>>)
    ELSE Finish(p, <<"Ok">>)

\* The task that waits for the child exists: tokio::spawn of config.rs 151,
\* which follows the join! of the two listen_out.
WaitStarted(p) == ReadersDone(p)

\* The child of p has exited with the given code.
Exited(p, code) ==
    /\ child[p] = <<"running">>
    /\ child' = [child EXCEPT ![p] = <<"exited", code>>]
    /\ gateStatus' = [gateStatus EXCEPT ![p] = IF phase[p] = "gate" THEN code ELSE @]

\* child_process.await yields the exit status: the task that waits for the
\* child was spawned after join!, the child has exited and the task has
\* completed (also when abort() came too late to cancel it).
JoinExit(p, code) ==
    /\ ReadersDone(p)
    /\ Exited(p, code)
    /\ OnStatus(p, code)
    /\ UNCHANGED <<cmdVars, wait_for, orchVars, chan, phase, rd, pend, emitted>>

\* A listen_out failed and child_process.abort() cancelled the waiting task:
\* child_process.await? returns the JoinError as ChildProcessExecute. The
\* child is left running.
JoinAborted(p) ==
    /\ ReadersDone(p)
    /\ ReaderFailed(p)
    /\ Finish(p, <<"ChildProcessExecute">>)
    /\ UNCHANGED <<cmdVars, wait_for, orchVars, chan, phase, rd, pend, child, gateStatus,
                   emitted>>

(* ------------------------------ children ------------------------------- *)

\* A child nobody waits for any more (its waiting task was cancelled) exits.
ChildExit(p, code) ==
    /\ pc[p] = "done"
    /\ Exited(p, code)
    /\ UNCHANGED <<cmdVars, wait_for, orchVars, chan, pc, phase, rd, pend, emitted, outcome>>

(* --------------------------- specification ----------------------------- *)

RunnerStep(p) ==
    \/ SpawnGate(p)
    \/ SpawnMain(p)
    \/ \E s \in Streams : NextLine(p, s)
    \/ \E s \in Streams : NextLineEnd(p, s)
    \/ \E s \in Streams : Send(p, s)
    \/ \E s \in Streams : SendFail(p, s)
    \/ \E code \in ExitCodes : JoinExit(p, code)
    \/ JoinAborted(p)

OrchStep ==
    \/ \E p \in Procs : SpawnTask(p)
    \/ Recv
    \/ WriteOk
    \/ WriteErr

Next ==
    \/ OrchStep
    \/ \E p \in Procs : RunnerStep(p)
    \/ \E p \in Procs, code \in ExitCodes : ChildExit(p, code)

Spec == Init /\ [][Next]_vars

(* ------- the WatchProcess of main.rs: lines 40-103, stdout only -------- *)

\* format!("{title} {line}\n") of main.rs 95-99: the tag ends in ">".
FormatLineMain(title, line) ==
    <<"on", StdoutColor, "[ ", title, " ]>", "reset", " ", line, "\n">>

\* main.rs 41-92: the command is spawned with stdout piped and the task that
\* waits for the child is spawned; or Command::spawn fails.
MainRsSpawn(p) ==
    /\ pc[p] = "start"
    /\ \/ /\ pc' = [pc EXCEPT ![p] = "listen"]
          /\ phase' = [phase EXCEPT ![p] = "main"]
          /\ child' = [child EXCEPT ![p] = <<"running">>]
          /\ rd' = [rd EXCEPT ![p]["stdout"] = "reading"]
          /\ UNCHANGED outcome
       \/ /\ Finish(p, <<"IoChildProcess", "spawn">>)
          /\ UNCHANGED <<phase, child, rd>>
    /\ UNCHANGED <<cmdVars, wait_for, orchVars, chan, pend, gateStatus, emitted>>

\* main.rs 94-99: next_line() returns Ok(Some(line)), send() is called.
MainRsLine(p) ==
    /\ pc[p] = "listen"
    /\ rd[p]["stdout"] = "reading"
    /\ TotalEmitted < MaxLines
    /\ emitted' = [emitted EXCEPT ![p] = @ + 1]
    /\ pend' = [pend EXCEPT ![p]["stdout"] =
                   <<[src |-> <<p, "main", "stdout", emitted[p] + 1>>,
                      text |-> FormatLineMain(Title(p), emitted[p] + 1)]>>]
    /\ rd' = [rd EXCEPT ![p]["stdout"] = "sending"]
    /\ UNCHANGED <<cmdVars, wait_for, orchVars, chan, pc, phase, child,
                   gateStatus, outcome>>

\* main.rs 94, 101: next_line() returns Ok(None), the task returns Ok(()).
MainRsEof(p) ==
    /\ pc[p] = "listen"
    /\ rd[p]["stdout"] = "reading"
    /\ rd' = [rd EXCEPT ![p]["stdout"] = "ok"]
    /\ Finish(p, <<"Ok">>)
    /\ UNCHANGED <<cmdVars, wait_for, orchVars, chan, phase, pend, child,
                   gateStatus, emitted>>

\* main.rs 94: next_line() returns Err (a line that is not UTF-8) and `?`
\* returns it from the task as WatchError::IoChildProcess.
MainRsMalformed(p) ==
    /\ pc[p] = "listen"
    /\ rd[p]["stdout"] = "reading"
    /\ rd' = [rd EXCEPT ![p]["stdout"] = "malformed"]
    /\ Finish(p, <<"IoChildProcess", "read">>)
    /\ UNCHANGED <<cmdVars, wait_for, orchVars, chan, phase, pend, child,
                   gateStatus, emitted>>

\* main.rs 99: sender.send(..).await fails and `?` returns the SendError.
MainRsSendFail(p) ==
    /\ pc[p] = "listen"
    /\ rd[p]["stdout"] = "sending"
    /\ closed
    /\ pend' = [pend EXCEPT ![p]["stdout"] = <<>>]
    /\ rd' = [rd EXCEPT ![p]["stdout"] = "err"]
    /\ Finish(p, <<"SendError">>)
    /\ UNCHANGED <<cmdVars, wait_for, orchVars, chan, phase, child, gateStatus,
                   emitted>>

MainRsStep(p) ==
    \/ MainRsSpawn(p)
    \/ MainRsLine(p)
    \/ MainRsEof(p)
    \/ MainRsMalformed(p)
    \/ Send(p, "stdout")
    \/ MainRsSendFail(p)

MainRsInit == Init /\ wait_for = [p \in Procs |-> FALSE]

MainRsNext ==
    \/ OrchStep
    \/ \E p \in Procs : MainRsStep(p)

\* run() of main.rs with the WatchProcess main.rs itself defines.
MainRsSpec == MainRsInit /\ [][MainRsNext]_vars

(* ------ the split of the command text: config.rs 73-86, 98-102 --------- *)

Chars == {" ", "a", "b"}

\* The command texts explored.
Texts == UNION {[1 .. n -> Chars] : n \in 0 .. MaxCmdLen}

\* str::split(' '): the pieces between the spaces, empty pieces included.
RECURSIVE SplitSpace(_)
SplitSpace(t) ==
    IF \A i \in 1 .. Len(t) : t[i] # " "
    THEN <<t>>
    ELSE LET i == CHOOSE j \in 1 .. Len(t) :
                      t[j] = " " /\ \A k \in 1 .. j - 1 : t[k] # " "
         IN <<SubSeq(t, 1, i - 1)>> \o SplitSpace(SubSeq(t, i + 1, Len(t)))

\* The closure of the fold, config.rs 78-86.
FoldStep(acc, item) ==
    IF acc.program = <<>>
    THEN [program |-> item, args |-> acc.args]
    ELSE [program |-> acc.program, args |-> Append(acc.args, item)]

\* Iterator::fold over the pieces.
RECURSIVE Fold(_, _)
Fold(acc, items) ==
    IF items = <<>> THEN acc ELSE Fold(FoldStep(acc, Head(items)), Tail(items))

\* The program and the arguments the Command is built with, config.rs 73-102.
CommandOf(ty, text) ==
    IF ty \in {"none", "cmd"}
    THEN Fold([program |-> <<>>, args |-> <<>>], SplitSpace(text))
    ELSE [program |-> "bash", args |-> <<"-c", text>>]

\* The Command of the WatchProcess is built.
BuildCommand ==
    /\ argv = <<>>
    /\ argv' = CommandOf(run_type, cmd)
    /\ UNCHANGED <<runVars, cmd, run_type>>

SplitInit ==
    /\ InitRun
    /\ wait_for = [p \in Procs |-> FALSE]
    /\ cmd \in Texts
    /\ run_type \in {"none", "cmd", "shell"}
    /\ argv = <<>>

\* Every command text and run type, and the Command built from it.
SplitSpec == SplitInit /\ [][BuildCommand]_vars

(* =============================== claims ================================ *)

AllFinished == \A p \in Procs : pc[p] = "done"

\* Both listen_out futures of the child p ran last returned Ok(()).
ReadersClean(p) == \A s \in Streams : rd[p][s] = "ok"

C2_Terminates == orchPc = "returned" \/ ENABLED Next

(* C3: the value run() returns is the aggregate of the outcomes: Ok exactly *)
(* when every task returned Ok, and otherwise the Err of one of the tasks.  *)
C3_Aggregate ==
    orchPc = "returned" =>
        /\ result = <<"Ok">> <=> \A p \in Procs : outcome[p] = <<"Ok">>
        /\ result # <<"Ok">> =>
               \E p \in Procs : outcome[p] # <<"none">> /\ result = outcome[p]

(* C4: whenever run() has returned, every task has finished.                *)
C4_WaitsForAll == orchPc = "returned" => AllFinished

\* Everything the task of q owns.
RunnerState(q) ==
    <<pc[q], phase[q], rd[q], pend[q], child[q], gateStatus[q], emitted[q],
      outcome[q]>>

(* C5: a step in which the task of p ends with an Err changes nothing of    *)
(* any other task, of the channel, or of the loop of run().                 *)
C5_FailureLocal ==
    [][\A p \in Procs :
          (pc[p] # "done" /\ pc'[p] = "done" /\ outcome'[p] # <<"Ok">>) =>
              /\ \A q \in Procs \ {p} : RunnerState(q)' = RunnerState(q)
              /\ UNCHANGED <<orchVars, chan>>]_vars

\* The task of p has failed while q is about to push its first line and
\* nothing has been written yet.
C5_Witness ==
    \E p \in Procs, q \in Procs, s \in Streams :
        /\ p # q
        /\ pc[p] = "done"
        /\ outcome[p] \notin {<<"Ok">>, <<"none">>}
        /\ pc[q] = "listen"
        /\ rd[q][s] = "sending"
        /\ orchPc = "recv"
        /\ ~closed
        /\ chan = <<>>
        /\ out = <<>>

\* The messages on their way to stdout, oldest first: written, being
\* written, buffered in the channel.
Pipeline == out \o hand \o chan

\* The stream a message was read from.
StreamOf(m) == <<m.src[1], m.src[2], m.src[3]>>

(* C6: two lines read from the same stream of the same child are in the    *)
(* channel, and are written, in the order in which they were read.          *)
C6_StreamOrder ==
    LET pl == Pipeline
    IN  /\ \A i \in 1 .. Len(pl) : \A j \in i + 1 .. Len(pl) :
               StreamOf(pl[i]) = StreamOf(pl[j]) => pl[i].src[4] < pl[j].src[4]
        /\ \A p \in Procs, s \in Streams :
               pend[p][s] # <<>> =>
                   \A i \in 1 .. Len(pl) :
                       StreamOf(pend[p][s][1]) = StreamOf(pl[i]) =>
                           pl[i].src[4] < pend[p][s][1].src[4]

\* Two lines of one stream have been written, a line of the other process
\* between them.
C6_Witness ==
    /\ Len(out) = 3
    /\ StreamOf(out[1]) = StreamOf(out[3])
    /\ out[2].src[1] # out[1].src[1]

\* How many places hold the k-th line of p: a pending send, the channel,
\* the hand of the loop of run(), or stdout.
Copies(p, k) ==
    LET pl == Pipeline
    IN  Cardinality({i \in 1 .. Len(pl) : pl[i].src[1] = p /\ pl[i].src[4] = k})
        + Cardinality({s \in Streams :
                          pend[p][s] # <<>> /\ pend[p][s][1].src[4] = k})

(* C7: the channel never buffers more than its capacity, and as long as the *)
(* receiver exists every line read so far is held exactly once: by a       *)
(* pending send, by the channel, or by the loop of run() (being written or  *)
(* written).                                                               *)
C7_Backpressure ==
    /\ Len(chan) <= ChanCapacity
    /\ ~closed => \A p \in Procs : \A k \in 1 .. emitted[p] : Copies(p, k) = 1

\* The channel is full and a listen_out is suspended in send().
C7_Witness ==
    /\ ~closed
    /\ Len(chan) = ChanCapacity
    /\ \E p \in Procs, s \in Streams : pc[p] = "listen" /\ rd[p][s] = "sending"

\* stdout holds every line read, once.
OutComplete ==
    /\ Len(out) = TotalEmitted
    /\ \A p \in Procs : \A k \in 1 .. emitted[p] :
           \E i \in 1 .. Len(out) : out[i].src[1] = p /\ out[i].src[4] = k

\* text is the complete line of the k-th line of p, read from stream s.
WholeLine(text, p, s, k) ==
    text = <<"on", ColorOf(s), "[ ", Title(p), " ] ", "reset", " ", k, "\n">>

(* C8: when every process has written lines and exited successfully and no  *)
(* write has failed, the run ends with run() returning Ok and stdout        *)
(* holding every line read, once, tagged with the title of its process.     *)
C8_CompleteRun ==
    ( /\ AllFinished
      /\ \A p \in Procs : child[p] = <<"exited", 0>> /\ emitted[p] >= 1
      /\ result # <<"IoChildProcess", "write">>
      /\ ~ENABLED Next )
    => /\ orchPc = "returned"
       /\ result = <<"Ok">>
       /\ OutComplete
       /\ \A i \in 1 .. Len(out) :
              WholeLine(out[i].text, out[i].src[1], out[i].src[3], out[i].src[4])

(* C9: every write of the loop of run() is one complete line (tag, message, *)
(* newline) that one listen_out has sent.                                   *)
C9_WholeLines ==
    \A i \in 1 .. Len(out) :
        \E p \in Procs, s \in Streams :
            \E k \in 1 .. emitted[p] :
                /\ out[i].src[1] = p /\ out[i].src[3] = s /\ out[i].src[4] = k
                /\ WholeLine(out[i].text, p, s, k)

\* Lines of two processes have been written.
C9_Witness ==
    /\ Len(out) >= 2
    /\ \E i \in 1 .. Len(out), j \in 1 .. Len(out) : out[i].src[1] # out[j].src[1]

(* C10: when both listen_out of the command returned Ok and the command     *)
(* exited with a non-success status, WatchProcess::run returns an Err       *)
(* carrying that status.                                                    *)
C10_ExitFailed ==
    \A p \in Procs :
        ( /\ pc[p] = "done"
          /\ phase[p] = "main"
          /\ ReadersClean(p)
          /\ child[p][1] = "exited"
          /\ child[p][2] > 0 )
        => /\ outcome[p] # <<"Ok">>
           /\ outcome[p][2] = child[p][2]

(* C11: a process without wait_for never runs a wait_for child: the only   *)
(* child it ever has is its command.                                        *)
C11_NoGate ==
    \A p \in Procs :
        ~wait_for[p] =>
            /\ phase[p] # "gate"
            /\ gateStatus[p] = -1
            /\ child[p] # <<"none">> => phase[p] = "main"

\* A process without wait_for runs its command.
C11_Witness ==
    \E p \in Procs : ~wait_for[p] /\ phase[p] = "main" /\ pc[p] = "listen"

\* A listen_out of the child p ran last returned the SendError.
ReaderErr(p) == \E s \in Streams : rd[p][s] = "err"

(* C12: when a listen_out of p failed because the receiver is gone, what    *)
(* WatchProcess::run returns is that SendError.                            *)
C12_ReaderFailure ==
    \A p \in Procs :
        (pc[p] = "done" /\ ReaderErr(p)) => outcome[p] = <<"SendError">>

\* A listen_out of p is still reading or sending.
ReaderActive(p) == \E s \in Streams : rd[p][s] \in {"reading", "sending"}

(* C13: while a listen_out of the child of p is still active, the task of   *)
(* p is in execute_and_await, the exit of the child has not been looked at, *)
(* and p has neither finished nor gone on to its command.                   *)
C13_BothReadersFirst ==
    \A p \in Procs :
        ReaderActive(p) =>
            /\ pc[p] = "listen"
            /\ child[p] = <<"running">>
            /\ outcome[p] = <<"none">>

\* One listen_out has returned, the other is suspended on the full channel,
\* and the task of p still waits for it.
C13_Witness ==
    \E p \in Procs, s \in Streams, r \in Streams :
        /\ rd[p][s] = "ok"
        /\ rd[p][r] = "sending"
        /\ Len(chan) = ChanCapacity
        /\ pc[p] = "listen"

(* C14: while the command of p runs and a listen_out is still active, the   *)
(* task that waits for the exit of the child has been started.              *)
C14_WaitConcurrent ==
    \A p \in Procs :
        (pc[p] = "listen" /\ phase[p] = "main" /\ ReaderActive(p)) => WaitStarted(p)

\* How far the task of p has come.
Rank(p) ==
    CASE pc[p] = "unspawned" -> 0
      [] pc[p] = "start" -> 1
      [] pc[p] = "listen" /\ phase[p] = "gate" -> 2
      [] pc[p] = "main" -> 3
      [] pc[p] = "listen" /\ phase[p] = "main" -> 4
      [] pc[p] = "done" -> 5

(* C15: a task only moves forward (start, wait_for child, spawn of the      *)
(* command, command, done), it has an outcome exactly when it is done, and  *)
(* once done its outcome, its phase, its readers and the lines it has read  *)
(* never change and it sends nothing.                                       *)
C15_Forward ==
    [][\A p \in Procs :
          /\ Rank(p)' >= Rank(p)
          /\ (outcome'[p] # <<"none">>) <=> (pc'[p] = "done")
          /\ pc[p] = "done" =>
                /\ outcome'[p] = outcome[p]
                /\ phase'[p] = phase[p]
                /\ rd'[p] = rd[p]
                /\ pend'[p] = pend[p]
                /\ emitted'[p] = emitted[p]
                /\ Len(chan') > Len(chan) => chan'[Len(chan')].src[1] # p]_vars

\* A process with wait_for went through every stage and returned Ok.
C15_Witness ==
    \E p \in Procs :
        /\ wait_for[p]
        /\ phase[p] = "main"
        /\ pc[p] = "done"
        /\ outcome[p] = <<"Ok">>
        /\ emitted[p] >= 2

(* C16: a send that finds the receiver gone ends its listen_out with the    *)
(* error: the message is not sent again, and as long as the same child runs *)
(* that listen_out reads and sends nothing more.                            *)
C16_NoRetry ==
    [][\A p \in Procs, s \in Streams :
          /\ (closed /\ rd[p][s] = "sending" /\ rd'[p][s] # "sending") =>
                 (rd'[p][s] = "err" /\ pend'[p][s] = <<>> /\ chan' = chan)
          /\ (rd[p][s] = "err" /\ phase'[p] = phase[p]) =>
                 (rd'[p][s] = "err" /\ pend'[p][s] = <<>>)]_vars

\* One listen_out has failed while the other one of the same child is
\* still reading.
C16_Witness ==
    \E p \in Procs, s \in Streams, r \in Streams :
        rd[p][s] = "err" /\ rd[p][r] = "reading" /\ pc[p] = "listen"

(* C19: when the command of p is spawned no line of the wait_for child of p *)
(* is still waiting to be sent, so in the channel and on stdout every line  *)
(* of the wait_for child of p precedes every line of the command of p.      *)
C19_GateLinesFirst ==
    LET pl == Pipeline
    IN  \A p \in Procs :
            /\ phase[p] = "main" =>
                   \A s \in Streams :
                       pend[p][s] # <<>> => pend[p][s][1].src[2] = "main"
            /\ \A i \in 1 .. Len(pl) : \A j \in i + 1 .. Len(pl) :
                   ( /\ pl[i].src[1] = p
                     /\ pl[j].src[1] = p
                     /\ pl[j].src[2] = "gate" )
                   => pl[i].src[2] = "gate"
            /\ (\E i \in 1 .. Len(pl) :
                    pl[i].src[1] = p /\ pl[i].src[2] = "main")
                   => phase[p] = "main"

\* A line of the wait_for child and then a line of the command have been
\* written, a line of the other process between them.
C19_Witness ==
    /\ Len(out) = 3
    /\ out[1].src[1] = out[3].src[1]
    /\ out[1].src[2] = "gate"
    /\ out[3].src[2] = "main"
    /\ out[2].src[1] # out[1].src[1]

C17_MalformedIsEof ==
    \A p \in Procs :
        rd[p]["stdout"] = "malformed" =>
            outcome[p] \in {<<"none">>, <<"Ok">>}

(* C18: with run type Cmd (or none) the program is the first piece of the   *)
(* text split at single spaces and the arguments are the remaining pieces   *)
(* in order; with Shell the text is the one argument after bash -c.        *)
C18_FirstToken ==
    argv # <<>> =>
        IF run_type = "shell"
        THEN argv = [program |-> "bash", args |-> <<"-c", cmd>>]
        ELSE /\ argv.program = Head(SplitSpace(cmd))
             /\ argv.args = Tail(SplitSpace(cmd))

====
